---- MODULE Spec2Model ----
(***************************************************************************)
(* Model of the visual-translator job worker (worker/job-processor.ts):    *)
(* the ai_jobs / ai_results tables, the realtime INSERT channel, the       *)
(* startup sweep, the listener's admission control over                    *)
(* processor.activeJobs, and the handleNewJob pipeline, one action per     *)
(* await point.  A database or service call takes effect and resumes its   *)
(* caller in one step.  Further specifications cover performOCR (OcrSpec), *)
(* translateWithGemini (GeminiSpec), the rate limiters of                  *)
(* lib/rate-limiter.ts (LimiterSpec), withAuth of lib/api-middleware.ts    *)
(* (AuthSpec), validateFileUpload and validateLanguageSelection of         *)
(* lib/validation.ts (FileSpec, LanguageSpec), the assembly of the         *)
(* AnalysisResult in handleNewJob (AssemblySpec) and the second worker,    *)
(* worker/translation-worker.ts (TwSpec).                                  *)
(***************************************************************************)
EXTENDS Integers, FiniteSets, Sequences, Bags, TLC

\* ------------------------------------------------------------------ bounds
NJobs == 4              \* job rows the API creates during a run
MaxRedeliver == 1       \* notifications the channel delivers a second time
MaxFaults == 2          \* external calls (database, storage, Gemini) that fail
MaxBadJobs == 1         \* job rows with an invalid config or without an asset
MaxStale == 1           \* job rows a crashed worker run left in 'processing'
MaxPolls == 2           \* translation-worker: ticks of the 5-second timer
MaxTwJobs == 2          \* translation-worker: job rows the API creates
MaxTwFaults == 1        \* translation-worker: external calls that fail

\* ------------------------------------------------------- program constants
maxConcurrentJobs == 3  \* processor.maxConcurrentJobs
GeminiConfidence == 9   \* translateWithGemini's fixed confidence 0.9, in tenths

Jobs == 1..NJobs

\* job_status enum of the schema; "absent" is a row not yet created
JobStatus == {"pending", "processing", "completed", "failed"}

NoError == "none"
ErrConfig == "Invalid job configuration"
ErrUpdate == "Failed to update job status"
ErrAsset == "Asset not found"
ErrDownload == "Failed to download asset"
ErrTranslate == "Translation failed"
ErrValidate == "Analysis result validation failed"
ErrSave == "Failed to save results"
ErrComplete == "Failed to mark job as completed"

\* performOCR's mock content: number of text blocks per kind of MIME type
MimeKinds == {"pdf", "image", "other"}
mockContent(kind) ==
    CASE kind = "pdf" -> 13
      [] kind = "image" -> 7
      [] OTHER -> 4

VARIABLES
    ai_jobs,      \* table ai_jobs: job id -> row
    ai_results,   \* table ai_results: job id -> number of rows with that job_id
    channel,      \* realtime channel: job id -> INSERT notifications in flight
    notified,     \* job ids for which the channel has carried a notification
    redelivered,  \* notifications delivered a second time so far
    phase,        \* startWorker: "starting", "subscribing", "listening", "exited"
    activeJobs,   \* processor.activeJobs
    exec,         \* job id -> bag of the frames of its handleNewJob executions
                  \* (of its processTranslationJob executions in TwSpec)
    runs,         \* job id -> number of handleNewJob (processTranslationJob)
                  \* calls made for it
    crashed,      \* an unhandled rejection has ended the process
    faults,       \* external calls that have failed so far
    workload,     \* the workload explored: "capacity" or "faults"
    last,         \* the admission, refusal or settlement the last step made
    startupPending, \* processPendingJobs: the ids its select returned
    polls,        \* translation-worker: pollForJobs invocation -> where it is
                  \* and the rows of its select it has still to process
    input,        \* adapters and middleware: the arguments of the call
    output,       \* adapters, middleware and limiter: what the call made
                  \* in the last step returned
    limiter,      \* rate limiter: the instance (class, maxRequests)
    store,        \* rate limiter: key -> entry (value, expiresAt)
    now,          \* rate limiter: Date.now()
    windowStart,  \* rate limiter: key -> the instant the key's current
                  \* window began at and the calls made for it since
    suspended     \* rate limiter: checkLimit calls awaiting in increment

\* The state of the adapters, the middleware and the rate limiter, which the
\* worker's steps leave alone.
limiterVars == <<limiter, store, now, windowStart, suspended>>

aux == <<input, output, limiterVars>>

worker == <<ai_jobs, ai_results, channel, notified, redelivered, phase,
            activeJobs, exec, runs, crashed, faults, workload, last,
            startupPending, polls>>

vars == <<ai_jobs, ai_results, channel, notified, redelivered, phase,
          activeJobs, exec, runs, crashed, faults, workload, last,
          startupPending, polls, input, output, limiter, store, now,
          windowStart, suspended>>

\* A row of ai_jobs.  started_at and completed_at are NULL until a write
\* stamps them; updated_at names the write that stamped it last.
AbsentRow == [status |-> "absent", error_message |-> NoError,
              config |-> TRUE, asset |-> TRUE,
              started_at |-> "null", completed_at |-> "null",
              updated_at |-> "null"]

\* supabase.from('ai_jobs').update(payload).eq('id', jobId): the columns the
\* payload names are overwritten, the others keep their values.
Update(row, payload) ==
    [c \in DOMAIN row |-> IF c \in DOMAIN payload THEN payload[c] ELSE row[c]]

\* The payloads of handleNewJob's three status writes.
FailedUpdateMutant(message) ==
    [error_message |-> message, updated_at |-> "failed"]

ProcessingUpdate == [status |-> "processing", updated_at |-> "processing"]

CompletedUpdate == [status |-> "completed", updated_at |-> "completed"]

FailedUpdate(message) ==
    [status |-> "failed", error_message |-> message, updated_at |-> "failed"]

\* A frame of handleNewJob: where it is suspended, the error its catch block
\* holds, the OCR block count, the external calls it has made so far and
\* whether one of its translation calls has rejected; log is the sequence of
\* the steps it has taken, in the order it took them.
Frame(pc, err, blocks, calls, rejected) ==
    [pc |-> pc, err |-> err, blocks |-> blocks, calls |-> calls,
     rejected |-> rejected, log |-> <<>>]

NoEvent == [op |-> "none", job |-> 0, err |-> NoError, out |-> "none",
            calls |-> {}, rejected |-> FALSE, log |-> <<>>]

Event(op, j, err, out, calls, rejected) ==
    [op |-> op, job |-> j, err |-> err, out |-> out, calls |-> calls,
     rejected |-> rejected, log |-> <<>>]

Frames(j) == BagToSet(exec[j])
InFlight(j) == BagCardinality(exec[j])
Put(bag, f) == bag (+) SetToBag({f})
Take(bag, f) == bag (-) SetToBag({f})

\* Two workloads are explored.  "capacity": more jobs than the worker admits
\* at once, well-formed rows, an environment in which every call succeeds
\* and every notification is delivered once.  "faults": fewer jobs than the
\* cap, with failing calls, malformed rows and re-delivered notifications.
Workloads == {"capacity", "faults"}
JobLimit == IF workload = "capacity" THEN NJobs ELSE maxConcurrentJobs - 1
FaultLimit == IF workload = "capacity" THEN 0 ELSE MaxFaults
BadJobLimit == IF workload = "capacity" THEN 0 ELSE MaxBadJobs
RedeliverLimit == IF workload = "capacity" THEN 0 ELSE MaxRedeliver
StaleLimit == IF workload = "capacity" THEN 0 ELSE MaxStale

\* The outcome of an external call: a failure is drawn from the fault budget.
Outcome(ok) ==
    IF ok THEN UNCHANGED faults
    ELSE faults < FaultLimit /\ faults' = faults + 1

BadJobs == {j \in Jobs : ai_jobs[j].status # "absent"
                         /\ ~(ai_jobs[j].config /\ ai_jobs[j].asset)}

\* Steps that touch no shared state (asset read, download, OCR, translation)
\* commute with every step of the other executions; they are taken before
\* any step on the tables, the channel or processor.activeJobs.
LocalPcs == {"fetchAsset", "download", "ocr", "translate"}
NoLocalStep == \A j \in Jobs : \A f \in Frames(j) : f.pc \notin LocalPcs

\* The adapters, the middleware and the rate limiter before any call.
NoValue == [kind |-> "none"]

\* translation-worker's pollForJobs: the invocation startWorker awaits (0) and
\* those of the interval timer, none of them made yet.
Polls == 0..MaxPolls

IdlePoll == [pc |-> "idle", jobs |-> <<>>]

NoPolls == [p \in Polls |-> IdlePoll]

AuxIdle ==
    /\ input = NoValue
    /\ output = NoValue
    /\ limiter = NoValue
    /\ store = <<>>
    /\ now = 0
    /\ windowStart = <<>>
    /\ suspended = {}

\* ------------------------------------------------------------------- Init
Init ==
    /\ ai_jobs = [j \in Jobs |-> AbsentRow]
    /\ ai_results = [j \in Jobs |-> 0]
    /\ channel = [j \in Jobs |-> 0]
    /\ notified = {}
    /\ redelivered = 0
    /\ phase = "starting"
    /\ activeJobs = {}
    /\ exec = [j \in Jobs |-> EmptyBag]
    /\ runs = [j \in Jobs |-> 0]
    /\ crashed = FALSE
    /\ faults = 0
    /\ workload \in Workloads
    /\ last = NoEvent
    /\ startupPending = {}
    /\ polls = NoPolls
    /\ AuxIdle

\* ---------------------------------------------------------- environment
\* The jobs API inserts a row with status 'pending'; an INSERT notification
\* is emitted when the worker's subscription is established.  The row's
\* config may fail jobConfigSchema and its asset_id may name no asset.
CreateJob(j, cfg, asset) ==
    /\ ai_jobs[j].status = "absent"
    /\ NoLocalStep
    /\ j <= JobLimit
    /\ (cfg /\ asset) \/ Cardinality(BadJobs) < BadJobLimit
    /\ \A i \in 1..(j - 1) : ai_jobs[i].status # "absent"
    /\ ai_jobs' = [ai_jobs EXCEPT ![j] =
                     [AbsentRow EXCEPT !.status = "pending",
                                       !.config = cfg, !.asset = asset,
                                       !.updated_at = "insert"]]
    /\ IF phase = "listening"
       THEN /\ channel' = [channel EXCEPT ![j] = @ + 1]
            /\ notified' = notified \cup {j}
       ELSE UNCHANGED <<channel, notified>>
    /\ last' = NoEvent
    /\ UNCHANGED <<ai_results, redelivered, phase, activeJobs, exec, runs,
                   crashed, faults, workload>>
    /\ UNCHANGED <<startupPending, polls, aux>>

\* A worker run that crashed in the middle of a job has left the job's row
\* in status 'processing' before this run starts.
StaleRows == {j \in Jobs : ai_jobs[j].status = "processing"
                           /\ runs[j] = 0 /\ j \notin startupPending \cup notified}

LeaveStale(j) ==
    /\ ai_jobs[j].status = "absent"
    /\ phase = "starting"
    /\ j <= JobLimit
    /\ Cardinality(StaleRows) < StaleLimit
    /\ \A i \in 1..(j - 1) : ai_jobs[i].status # "absent"
    /\ ai_jobs' = [ai_jobs EXCEPT ![j] =
                     Update(AbsentRow, ProcessingUpdate)]
    /\ last' = NoEvent
    /\ UNCHANGED <<ai_results, channel, notified, redelivered, phase,
                   activeJobs, exec, runs, crashed, faults, workload>>
    /\ UNCHANGED <<startupPending, polls, aux>>

\* The discovery mechanism delivers the notification of a job id again.
Redeliver(j) ==
    /\ j \in notified
    /\ redelivered < RedeliverLimit
    /\ NoLocalStep
    /\ redelivered' = redelivered + 1
    /\ channel' = [channel EXCEPT ![j] = @ + 1]
    /\ last' = NoEvent
    /\ UNCHANGED <<ai_jobs, ai_results, notified, phase, activeJobs, exec,
                   runs, crashed, faults, workload>>
    /\ UNCHANGED <<startupPending, polls, aux>>

\* ------------------------------------------------------ handleNewJob
\* Lines 233-250: the synchronous prefix of handleNewJob, up to its first
\* await.  An invalid config throws into the catch block, which issues the
\* write of status 'failed'; a valid one issues the write of 'processing'.
handleNewJobEnterMutant(row) == Frame("updProcessing", NoError, 0, {}, FALSE)

handleNewJobEnter(row) ==
    IF row.config
    THEN Frame("updProcessing", NoError, 0, {}, FALSE)
    ELSE Frame("updFailed", ErrConfig, 0, {}, FALSE)

\* catch block, lines 362-373: the frame awaits the write of 'failed'.
Catch(f, err) == [f EXCEPT !.pc = "updFailed", !.err = err]

\* finally block, lines 376-379.
FinallyMutant(active, jobId, out) ==
    IF out = "ok" THEN active \ {jobId} ELSE active

Finally(active, jobId, out) == active \ {jobId}

\* The callers' .catch(...) on the promise handleNewJob returns
\* (lines 410-412 for the listener, 469-471 for the sweep).
RejectionCaughtMutant(origin) == origin = "sweep"

RejectionCaught(origin) == origin \in {"listener", "sweep"}

Origin(j) == IF j \in notified THEN "listener" ELSE "sweep"

\* Line 264: the asset lookup's result is tested.
AssetFoundMutant(row) == TRUE

AssetFound(row) == row.asset

\* Line 295: Promise.all resolves when every translation has resolved and
\* rejects with the first rejection.
AllTranslatedMutant(nOk, blocks) == nOk > 0

AllTranslated(nOk, blocks) == nOk = blocks

\* Lines 299-331: the overall confidence is the mean of the translations'
\* confidences, 0/0 = NaN for no block, and the schema wants a number
\* in [0,1].
MeanConfidence(n) == IF n = 0 THEN -1 ELSE (n * GeminiConfidence) \div n

AnalysisValid(n) == MeanConfidence(n) >= 0 /\ MeanConfidence(n) <= 10

Running(j, f) == ~crashed /\ f \in Frames(j)

Goto(j, f, g) == exec' = [exec EXCEPT ![j] = Put(Take(@, f), g)]

Settle(j, f) == exec' = [exec EXCEPT ![j] = Take(@, f)]

\* Lines 242-254: write status 'processing'.
UpdateProcessing(j, f, ok) ==
    /\ Running(j, f) /\ f.pc = "updProcessing"
    /\ NoLocalStep /\ Outcome(ok)
    /\ IF ok
       THEN /\ ai_jobs' = [ai_jobs EXCEPT ![j] = Update(@, ProcessingUpdate)]
            /\ Goto(j, f, [f EXCEPT !.pc = "fetchAsset",
                                    !.log = Append(@, "processing")])
       ELSE /\ Goto(j, f, Catch(f, ErrUpdate))
            /\ UNCHANGED ai_jobs
    /\ last' = NoEvent
    /\ UNCHANGED <<ai_results, channel, notified, redelivered, phase,
                   activeJobs, runs, crashed, workload>>
    /\ UNCHANGED <<startupPending, polls, aux>>

\* Lines 256-266: read the asset row.
FetchAsset(j, f) ==
    /\ Running(j, f) /\ f.pc = "fetchAsset"
    /\ LET g == [f EXCEPT !.calls = @ \cup {"fetch"},
                           !.log = Append(@, "fetch")]
       IN IF AssetFound(ai_jobs[j])
          THEN Goto(j, f, [g EXCEPT !.pc = "download"])
          ELSE Goto(j, f, Catch(g, ErrAsset))
    /\ last' = NoEvent
    /\ UNCHANGED <<ai_jobs, ai_results, channel, notified, redelivered, phase,
                   activeJobs, runs, crashed, faults, workload>>
    /\ UNCHANGED <<startupPending, polls, aux>>

\* Lines 268-276: download the file from storage.
Download(j, f, ok) ==
    /\ Running(j, f) /\ f.pc = "download"
    /\ Outcome(ok)
    /\ LET g == [f EXCEPT !.calls = @ \cup {"download"},
                           !.log = Append(@, "download")]
       IN IF ok
          THEN Goto(j, f, [g EXCEPT !.pc = "ocr"])
          ELSE Goto(j, f, Catch(g, ErrDownload))
    /\ last' = NoEvent
    /\ UNCHANGED <<ai_jobs, ai_results, channel, notified, redelivered, phase,
                   activeJobs, runs, crashed, workload>>
    /\ UNCHANGED <<startupPending, polls, aux>>

\* Lines 278-293: performOCR on the asset's file_type, then one
\* translateWithGemini call per block is started.
PerformOCR(j, f, kind) ==
    /\ Running(j, f) /\ f.pc = "ocr"
    /\ Goto(j, f, [f EXCEPT !.pc = "translate",
                            !.blocks = mockContent(kind),
                            !.calls = @ \cup {"ocr", "translate"},
                            !.log = @ \o <<"ocr", "translate">>])
    /\ last' = NoEvent
    /\ UNCHANGED <<ai_jobs, ai_results, channel, notified, redelivered, phase,
                   activeJobs, runs, crashed, faults, workload>>
    /\ UNCHANGED <<startupPending, polls, aux>>

\* Lines 295-331: Promise.all over the translations settles; nOk of the
\* blocks have translated successfully by then.  It rejects unless all did;
\* otherwise the result is assembled and validated.
Translate(j, f, nOk) ==
    /\ Running(j, f) /\ f.pc = "translate"
    /\ nOk \in 0..f.blocks
    /\ Outcome(nOk = f.blocks)
    /\ LET g == [f EXCEPT !.rejected = (nOk < f.blocks), !.blocks = 0]
           h == [g EXCEPT !.log = Append(@, "joined")]
       IN IF ~AllTranslated(nOk, f.blocks)
          THEN Goto(j, f, Catch(g, ErrTranslate))
          ELSE IF AnalysisValid(f.blocks)
               THEN Goto(j, f, [h EXCEPT !.pc = "insertResult",
                                         !.log = Append(@, "validated")])
               ELSE Goto(j, f, Catch(h, ErrValidate))
    /\ last' = NoEvent
    /\ UNCHANGED <<ai_jobs, ai_results, channel, notified, redelivered, phase,
                   activeJobs, runs, crashed, workload>>
    /\ UNCHANGED <<startupPending, polls, aux>>

\* Lines 333-345: insert the ai_results row.
InsertResult(j, f, ok) ==
    /\ Running(j, f) /\ f.pc = "insertResult"
    /\ NoLocalStep /\ Outcome(ok)
    /\ IF ok
       THEN /\ ai_results' = [ai_results EXCEPT ![j] = @ + 1]
            /\ Goto(j, f, [f EXCEPT !.pc = "updCompleted",
                                    !.calls = @ \cup {"insert"},
                                    !.log = Append(@, "insert")])
       ELSE /\ Goto(j, f, Catch(f, ErrSave))
            /\ UNCHANGED ai_results
    /\ last' = NoEvent
    /\ UNCHANGED <<ai_jobs, channel, notified, redelivered, phase,
                   activeJobs, runs, crashed, workload>>
    /\ UNCHANGED <<startupPending, polls, aux>>

\* Lines 347-360 and 376-379: write status 'completed'; on success the
\* execution resolves through the finally block.
UpdateCompleted(j, f, ok) ==
    /\ Running(j, f) /\ f.pc = "updCompleted"
    /\ NoLocalStep /\ Outcome(ok)
    /\ IF ok
       THEN /\ ai_jobs' = [ai_jobs EXCEPT ![j] = Update(@, CompletedUpdate)]
            /\ Settle(j, f)
            /\ activeJobs' = Finally(activeJobs, j, "ok")
            /\ last' = [Event("settled", j, NoError, "ok", f.calls,
                               f.rejected)
                           EXCEPT !.log = Append(f.log, "completed")]
       ELSE /\ Goto(j, f, Catch(f, ErrComplete))
            /\ last' = NoEvent
            /\ UNCHANGED <<ai_jobs, activeJobs>>
    /\ UNCHANGED <<ai_results, channel, notified, redelivered, phase,
                   runs, crashed, workload>>
    /\ UNCHANGED <<startupPending, polls, aux>>

\* Lines 362-379: the catch block's write of status 'failed' returns (ok, or
\* an error result the code ignores) or throws; the error is rethrown, the
\* finally block runs and the caller's .catch receives the rejection.
UpdateFailed(j, f, out) ==
    /\ Running(j, f) /\ f.pc = "updFailed"
    /\ NoLocalStep /\ Outcome(out = "ok")
    /\ IF out = "ok"
       THEN ai_jobs' = [ai_jobs EXCEPT ![j] = Update(@, FailedUpdate(f.err))]
       ELSE UNCHANGED ai_jobs
    /\ Settle(j, f)
    /\ activeJobs' = Finally(activeJobs, j, out)
    /\ crashed' = ~RejectionCaught(Origin(j))
    /\ last' = [Event("settled", j, f.err, out, f.calls, f.rejected)
                   EXCEPT !.log = f.log]
    /\ UNCHANGED <<ai_results, channel, notified, redelivered, phase, runs,
                   workload>>
    /\ UNCHANGED <<startupPending, polls, aux>>

\* ---------------------------------------------------------- discovery
\* Line 401: the listener's capacity check.
ListenerAtCapacityMutant(active) == Cardinality(active) > maxConcurrentJobs

ListenerAtCapacity(active) == Cardinality(active) >= maxConcurrentJobs

\* Line 463: the sweep's capacity check.
SweepAtCapacity(active) == Cardinality(active) >= maxConcurrentJobs

\* Lines 396-413: the listener's callback for one INSERT notification.
OnInsert(j) ==
    /\ ~crashed /\ phase = "listening"
    /\ channel[j] > 0
    /\ NoLocalStep
    /\ channel' = [channel EXCEPT ![j] = @ - 1]
    /\ IF ListenerAtCapacity(activeJobs)
       THEN /\ last' = Event("refused", j, NoError, "none", {}, FALSE)
            /\ UNCHANGED <<activeJobs, exec, runs>>
       ELSE /\ activeJobs' = activeJobs \cup {j}
            /\ runs' = [runs EXCEPT ![j] = @ + 1]
            /\ exec' = [exec EXCEPT ![j] = Put(@, handleNewJobEnter(ai_jobs[j]))]
            /\ last' = Event("admitted", j, NoError,
                             IF j \in activeJobs THEN "duplicate" ELSE "new",
                             {}, FALSE)
    /\ UNCHANGED <<ai_jobs, ai_results, notified, redelivered, phase, crashed,
                   faults, workload>>
    /\ UNCHANGED <<startupPending, polls, aux>>

Range(seq) == {seq[i] : i \in 1..Len(seq)}

\* Lines 443-447: the pending rows in created_at order.
RECURSIVE PendingFrom(_)
PendingFrom(j) ==
    IF j > NJobs THEN <<>>
    ELSE IF ai_jobs[j].status = "pending" THEN <<j>> \o PendingFrom(j + 1)
    ELSE PendingFrom(j + 1)

\* Lines 461-472: the sweep's loop; the active set it leaves.
RECURSIVE SweepLoop(_, _)
SweepLoop(pendingJobs, active) ==
    IF pendingJobs = <<>> \/ SweepAtCapacity(active) THEN active
    ELSE SweepLoop(Tail(pendingJobs), active \cup {Head(pendingJobs)})

\* Lines 476-499 with 440-473 and the call of initializeJobListener:
\* the connection test, the startup sweep and the subscription request.
StartWorker(connOk, selectOk) ==
    /\ ~crashed /\ phase = "starting"
    /\ NoLocalStep /\ Outcome(connOk /\ selectOk)
    /\ last' = NoEvent
    /\ IF ~connOk
       THEN /\ phase' = "exited"
            /\ UNCHANGED <<activeJobs, exec, runs, startupPending>>
       ELSE /\ phase' = "subscribing"
            /\ IF ~selectOk
               THEN UNCHANGED <<activeJobs, exec, runs, startupPending>>
               ELSE LET after == SweepLoop(PendingFrom(1), activeJobs)
                        started == after \ activeJobs
                    IN /\ startupPending' = Range(PendingFrom(1))
                       /\ activeJobs' = after
                       /\ runs' = [j \in Jobs |->
                                     IF j \in started THEN runs[j] + 1
                                     ELSE runs[j]]
                       /\ exec' = [j \in Jobs |->
                                     IF j \in started
                                     THEN Put(exec[j],
                                              handleNewJobEnter(ai_jobs[j]))
                                     ELSE exec[j]]
    /\ UNCHANGED <<ai_jobs, ai_results, channel, notified, redelivered,
                   crashed, workload>>
    /\ UNCHANGED <<polls, aux>>

\* Lines 415-421: the channel reports SUBSCRIBED.
Subscribed ==
    /\ ~crashed /\ phase = "subscribing"
    /\ NoLocalStep
    /\ phase' = "listening"
    /\ last' = NoEvent
    /\ UNCHANGED <<ai_jobs, ai_results, channel, notified, redelivered,
                   activeJobs, exec, runs, crashed, faults, workload>>
    /\ UNCHANGED <<startupPending, polls, aux>>

\* ------------------------------------------------------------------ Next
Next ==
    \/ \E j \in Jobs, cfg \in BOOLEAN, asset \in BOOLEAN : CreateJob(j, cfg, asset)
    \/ \E j \in Jobs : LeaveStale(j)
    \/ \E j \in Jobs : Redeliver(j)
    \/ \E connOk \in BOOLEAN, selectOk \in BOOLEAN : StartWorker(connOk, selectOk)
    \/ Subscribed
    \/ \E j \in Jobs : OnInsert(j)
    \/ \E j \in Jobs : \E f \in Frames(j), ok \in BOOLEAN : UpdateProcessing(j, f, ok)
    \/ \E j \in Jobs : \E f \in Frames(j) : FetchAsset(j, f)
    \/ \E j \in Jobs : \E f \in Frames(j), ok \in BOOLEAN : Download(j, f, ok)
    \/ \E j \in Jobs : \E f \in Frames(j), kind \in MimeKinds : PerformOCR(j, f, kind)
    \/ \E j \in Jobs : \E f \in Frames(j), nOk \in 0..mockContent("pdf") :
          Translate(j, f, nOk)
    \/ \E j \in Jobs : \E f \in Frames(j), ok \in BOOLEAN : InsertResult(j, f, ok)
    \/ \E j \in Jobs : \E f \in Frames(j), ok \in BOOLEAN : UpdateCompleted(j, f, ok)
    \/ \E j \in Jobs : \E f \in Frames(j), out \in {"ok", "error", "throw"} :
          UpdateFailed(j, f, out)

Spec == Init /\ [][Next]_vars

TypeOK ==
    /\ \A j \in Jobs : ai_jobs[j].status \in JobStatus \cup {"absent"}
    /\ \A j \in Jobs : runs[j] \in 0..(1 + MaxRedeliver)
    /\ \A j \in Jobs : ai_results[j] \in 0..runs[j]
    /\ activeJobs \subseteq Jobs

\* ------------------------------------------------------------- properties
Terminal == {"completed", "failed"}

Settled == last.op = "settled"

\* The worker has come to rest: it is listening, no execution is in flight,
\* no notification is in flight and none can still arrive.
AtRest ==
    /\ phase = "listening" /\ ~crashed
    /\ \A j \in Jobs : channel[j] = 0 /\ InFlight(j) = 0
    /\ \A j \in 1..JobLimit : ai_jobs[j].status # "absent"
    /\ redelivered = RedeliverLimit

\* C1: at every instant, under any interleaving of the startup sweep, the
\* listener's notifications and pipeline completions, the size of
\* processor.activeJobs is at most processor.maxConcurrentJobs.
C1_ActiveJobsWithinCap == Cardinality(activeJobs) <= maxConcurrentJobs

\* C1 witness: a notification has just been refused with the set full.
C1_Witness ==
    /\ last.op = "refused"
    /\ Cardinality(activeJobs) = maxConcurrentJobs
    /\ \A j \in activeJobs : InFlight(j) > 0

\* C2: a notification handled for a job id that is still in
\* processor.activeJobs starts no further handleNewJob execution for it.
C2_DuplicateIgnored ==
    [][\A j \in Jobs :
          (j \in activeJobs /\ channel'[j] < channel[j])
              => runs'[j] = runs[j]]_vars

\* C3: every job whose notification was refused at capacity has reached
\* status completed or failed once the worker has come to rest with its
\* slots free (every external call has returned).
C3_DeferredJobsFinish ==
    AtRest => \A j \in notified :
                 runs[j] = 0 => ai_jobs[j].status \in Terminal

\* C4: every status write is pending -> processing, processing -> completed
\* or processing -> failed, and a completed or failed row is never written
\* again.
LegalTransitions ==
    {<<"pending", "processing">>, <<"processing", "completed">>,
     <<"processing", "failed">>}

C4_LegalStatusWrites ==
    [][\A j \in Jobs :
          /\ (ai_jobs[j].status \in JobStatus
              /\ ai_jobs'[j].status # ai_jobs[j].status)
                 => <<ai_jobs[j].status, ai_jobs'[j].status>> \in LegalTransitions
          /\ ai_jobs[j].status \in Terminal => ai_jobs'[j] = ai_jobs[j]]_vars

\* C5 as stated: when an execution in which a translation rejected settles,
\* the job's status is failed and ai_results holds no row for the job.
C5_Original ==
    (Settled /\ last.rejected)
        => /\ ai_jobs[last.job].status = "failed"
           /\ ai_results[last.job] = 0

\* C5 as amended: an execution in which a translation rejected inserts no
\* ai_results row and fails with the translation error; when its write of
\* status failed succeeds the row has status failed and that error message.
C5_Amended ==
    (Settled /\ last.rejected)
        => /\ "insert" \notin last.calls
           /\ last.err = ErrTranslate
           /\ last.out = "ok"
                 => /\ ai_jobs[last.job].status = "failed"
                    /\ ai_jobs[last.job].error_message = ErrTranslate

\* C5 witness: such an execution has settled with its failed write done.
C5_Witness ==
    /\ Settled /\ last.rejected /\ last.out = "ok"
    /\ ai_jobs[last.job].status = "failed"

\* C6: a job with stored status completed has exactly one ai_results row.
C6_ExactlyOneResult ==
    \A j \in Jobs : ai_jobs[j].status = "completed" => ai_results[j] = 1

\* C7: a job that has ended with status failed has no ai_results row.
C7_NoResultForFailedJob ==
    \A j \in Jobs :
        (ai_jobs[j].status = "failed" /\ InFlight(j) = 0) => ai_results[j] = 0

\* C8 as stated: when an execution that looked up a missing asset settles,
\* the job has status failed and error_message 'Asset not found', the
\* execution made no download, OCR or translation call, and ai_results holds
\* no row for the job.
AssetMissing ==
    Settled /\ "fetch" \in last.calls /\ ~ai_jobs[last.job].asset

C8_Original ==
    AssetMissing
        => /\ ai_jobs[last.job].status = "failed"
           /\ ai_jobs[last.job].error_message = ErrAsset
           /\ last.calls = {"fetch"}
           /\ ai_results[last.job] = 0

\* C8 as amended: such an execution fails with 'Asset not found' after the
\* lookup alone, ai_results holds no row for the job, and when its write of
\* status failed succeeds the row has status failed and that error message.
C8_Amended ==
    AssetMissing
        => /\ last.err = ErrAsset
           /\ last.calls = {"fetch"}
           /\ ai_results[last.job] = 0
           /\ last.out = "ok"
                 => /\ ai_jobs[last.job].status = "failed"
                    /\ ai_jobs[last.job].error_message = ErrAsset

\* C8 witness: such an execution has settled with its failed write done.
C8_Witness ==
    /\ AssetMissing /\ last.out = "ok"
    /\ ai_jobs[last.job].error_message = ErrAsset

\* C9: when a handleNewJob execution settles, on success or on any failure,
\* and also when its last status write errors or throws, its job id is not
\* in processor.activeJobs.
C9_SlotReleased == Settled => last.job \notin activeJobs

\* C9 witness: an execution has settled whose write of status failed
\* returned an error or threw.
C9_Witness ==
    /\ Settled /\ last.out \in {"error", "throw"}
    /\ last.job \notin activeJobs

\* C10: the step in which a failed execution settles leaves the worker
\* running and listening and changes nothing of any other job: its row, its
\* results, its executions and its membership of processor.activeJobs.
C10_FailureIsLocal ==
    [][(last'.op = "settled" /\ last'.err # NoError)
          => /\ ~crashed' /\ phase' = phase /\ channel' = channel
             /\ ai_results' = ai_results
             /\ \A k \in Jobs \ {last'.job} :
                   /\ ai_jobs'[k] = ai_jobs[k]
                   /\ exec'[k] = exec[k]
                   /\ k \in activeJobs => k \in activeJobs']_vars

\* C10 witness: a failed execution has settled while another job is in
\* flight and active, with the worker still running.
C10_Witness ==
    /\ Settled /\ last.err # NoError /\ ~crashed
    /\ \E k \in Jobs \ {last.job} : InFlight(k) > 0 /\ k \in activeJobs

\* C11: once the worker has come to rest, every job whose row was pending
\* when the startup sweep read the table has had a handleNewJob execution,
\* however many such jobs there were; and the startup step starts no
\* execution for a job whose row has status processing.
C11_PendingResumed ==
    /\ [](AtRest => \A j \in startupPending : runs[j] > 0)
    /\ [][phase = "starting"
             => \A j \in Jobs : ai_jobs[j].status = "processing"
                                   => runs'[j] = runs[j]]_vars

\* C12: for a job whose config fails jobConfigSchema no step writes status
\* processing, and each of its executions settles with the configuration
\* error having made no asset lookup, download, OCR or translation call.
C12_BadConfigRejected ==
    [][\A j \in Jobs :
          (ai_jobs[j].status \in JobStatus /\ ~ai_jobs[j].config)
             => /\ ai_jobs'[j].status # "processing"
                /\ (last'.op = "settled" /\ last'.job = j)
                      => last'.calls = {} /\ last'.err = ErrConfig]_vars

\* C12 witness: an execution of a job with an invalid config has settled and
\* the row went from pending to failed with the configuration error.
C12_Witness ==
    /\ Settled /\ ~ai_jobs[last.job].config
    /\ last.err = ErrConfig /\ last.calls = {}
    /\ ai_jobs[last.job].status = "failed"
    /\ ai_jobs[last.job].error_message = ErrConfig

\* =================================================================
\* performOCR (worker/job-processor.ts, lines 82-158), as a function of its
\* arguments and of the values Math.random() returns.

MaxBufLen == 2          \* bytes in the file buffer handed to performOCR

\* MIME types the upload validation accepts (documents, then images).
SupportedMimeTypes ==
    {"application/pdf", "application/msword",
     "application/vnd.openxmlformats-officedocument.wordprocessingml.document",
     "text/plain", "image/jpeg", "image/png", "image/webp", "image/gif"}

\* mimeType.includes(part), for the parts performOCR looks for.
Includes(mimeType, part) ==
    CASE part = "pdf" -> mimeType \in {"application/pdf"}
      [] part = "document" ->
           mimeType \in {"application/vnd.openxmlformats-officedocument.wordprocessingml.document"}
      [] part = "image" ->
           mimeType \in {"image/jpeg", "image/png", "image/webp", "image/gif"}
      [] OTHER -> FALSE

\* Lines 95-128: which mock content a MIME type selects.
MimeKind(mimeType) ==
    IF Includes(mimeType, "pdf") \/ Includes(mimeType, "document") THEN "pdf"
    ELSE IF Includes(mimeType, "image") THEN "image"
    ELSE "other"

\* The mock content's lines: the length of each string and whether it
\* contains ':' or a bullet.
T(length, marked) == [length |-> length, marked |-> marked]

mockText(kind) ==
    CASE kind = "pdf" ->
       <<T(34, TRUE), T(17, FALSE), T(99, FALSE), T(27, TRUE), T(52, TRUE),
         T(33, TRUE), T(37, TRUE), T(18, FALSE), T(27, TRUE), T(32, TRUE),
         T(20, TRUE), T(14, FALSE), T(99, FALSE)>>
      [] kind = "image" ->
       <<T(20, FALSE), T(22, TRUE), T(25, FALSE), T(26, FALSE),
         T(28, TRUE), T(25, TRUE), T(18, TRUE)>>
      [] OTHER ->
       <<T(28, FALSE), T(45, FALSE), T(43, FALSE), T(40, FALSE)>>

\* Math.random() in thousandths, and confidences in units of 1/100000.
RandomDraws == {0, 500, 999}
ConfidenceOne == 100000

Max(a, b) == IF a >= b THEN a ELSE b
Min(a, b) == IF a <= b THEN a ELSE b
CeilDiv(a, b) == (a + b - 1) \div b

\* Line 133: Math.max(0.85, 0.95 + Math.random() * 0.05).
BlockConfidenceMutant(r) == Max(85000, 95000 + r * 50)

BlockConfidence(r) == Max(85000, 95000 + r * 5)

\* Lines 130-141: the block made from line number index (from 0) of the
\* mock content.
Block(t, index, r) ==
    [id |-> index + 1,
     textLength |-> t.length,
     confidence |-> BlockConfidence(r),
     bbox |-> [x |-> 50 + (index % 2) * 300,
               y |-> 80 + index * 45,
               width |-> Min(t.length * 8, 400),
               height |-> IF t.marked THEN 25 ELSE 35]]

\* Lines 82-158.  The buffer and the file name are not read; the catch
\* block is reached by no statement of the try block.
performOCR(size, mimeType, filename, r1, r2) ==
    LET content == mockText(MimeKind(mimeType))
        blocks == [i \in 1..Len(content) |->
                     Block(content[i], i - 1, IF i % 2 = 1 THEN r1 ELSE r2)]
    IN [kind |-> "resolved",
        blocks |-> blocks,
        pages |-> CeilDiv(Len(blocks), 10),
        language |-> "en"]

OcrCalls ==
    [kind : {"ocr"}, size : 0..MaxBufLen, mimeType : SupportedMimeTypes,
     filename : {"none", "scan.pdf"}, r1 : RandomDraws, r2 : RandomDraws]

\* The worker before startWorker is called, while an adapter, the middleware
\* or the rate limiter is exercised on its own.
WorkerIdle ==
    /\ ai_jobs = [j \in Jobs |-> AbsentRow]
    /\ ai_results = [j \in Jobs |-> 0]
    /\ channel = [j \in Jobs |-> 0]
    /\ notified = {}
    /\ redelivered = 0
    /\ phase = "starting"
    /\ activeJobs = {}
    /\ exec = [j \in Jobs |-> EmptyBag]
    /\ runs = [j \in Jobs |-> 0]
    /\ crashed = FALSE
    /\ faults = 0
    /\ workload = "capacity"
    /\ last = NoEvent
    /\ startupPending = {}
    /\ polls = NoPolls

LimiterIdle ==
    /\ limiter = NoValue
    /\ store = <<>>
    /\ now = 0
    /\ windowStart = <<>>
    /\ suspended = {}

OcrInit ==
    /\ WorkerIdle /\ LimiterIdle
    /\ input \in OcrCalls
    /\ output = NoValue

\* One call of performOCR returns.
CallPerformOCR ==
    /\ input.kind = "ocr" /\ output = NoValue
    /\ output' = performOCR(input.size, input.mimeType, input.filename,
                            input.r1, input.r2)
    /\ UNCHANGED <<worker, input, limiterVars>>

OcrNext == CallPerformOCR

OcrSpec == OcrInit /\ [][OcrNext]_vars

OcrReturned == input.kind = "ocr" /\ output # NoValue

\* C13: performOCR called with an empty file buffer, for any supported MIME
\* type, rejects with an OCR-failure error; it never resolves.
C13_EmptyBufferFails ==
    (OcrReturned /\ input.size = 0 /\ input.mimeType \in SupportedMimeTypes)
        => output.kind = "rejected"

\* C14: every block performOCR returns has a confidence between 0.85 and 1,
\* bbox.x and bbox.y non-negative and bbox.width and bbox.height strictly
\* positive, and the result has at least one block and at least one page.
BlockWellFormed(b) ==
    /\ b.confidence >= 85000 /\ b.confidence <= ConfidenceOne
    /\ b.bbox.x >= 0 /\ b.bbox.y >= 0
    /\ b.bbox.width > 0 /\ b.bbox.height > 0

C14_BlocksWellFormed ==
    (OcrReturned /\ output.kind = "resolved")
        => /\ \A i \in 1..Len(output.blocks) : BlockWellFormed(output.blocks[i])
           /\ Len(output.blocks) >= 1
           /\ output.pages >= 1

\* C14 witness: a call for an image has returned its 7 blocks on one page,
\* drawn with the largest random value.
C14_Witness ==
    /\ OcrReturned /\ output.kind = "resolved"
    /\ Includes(input.mimeType, "image") /\ input.r1 = 999
    /\ Len(output.blocks) = 7 /\ output.pages = 1
    /\ output.blocks[1].confidence = 99995

\* =================================================================
\* translateWithGemini (worker/job-processor.ts, lines 176-225), as a
\* function of the request and of what fetch and response.json() produce.
\* A string is a sequence of characters; " " stands for white space.

MaxTextLen == 2         \* characters in a text (request or response)

Chars == {" ", "x"}

Strings == UNION {[1..n -> Chars] : n \in 0..MaxTextLen}

IsSpace(c) == c = " "

\* String.prototype.trim().
RECURSIVE TrimStart(_)
TrimStart(s) ==
    IF s # <<>> /\ IsSpace(Head(s)) THEN TrimStart(Tail(s)) ELSE s

RECURSIVE TrimEnd(_)
TrimEnd(s) ==
    IF s # <<>> /\ IsSpace(s[Len(s)])
    THEN TrimEnd(SubSeq(s, 1, Len(s) - 1))
    ELSE s

Trim(s) == TrimEnd(TrimStart(s))

\* A JavaScript value's truthiness, for a string or undefined.
NoText == <<"undefined">>
Truthy(v) == v # NoText /\ v # <<>>

\* What fetch does: it throws, or it returns a response with a status, a
\* status text and a body; response.json() throws on a body that is not JSON.
HttpStatuses ==
    {<<200, "OK">>, <<204, "No Content">>, <<299, "">>,
     <<400, "Bad Request">>, <<429, "Too Many Requests">>,
     <<500, "Internal Server Error">>}

Bodies == {[kind |-> "invalid"]}
          \cup [kind : {"json"}, text : {NoText} \cup Strings]

FetchOutcomes ==
    {[kind |-> "throws"]}
    \cup [kind : {"response"}, status : HttpStatuses, body : Bodies]

GeminiCalls ==
    [kind : {"translate"}, text : Strings, sourceLanguage : {"auto", "en"},
     targetLanguage : {"es"}, fetch : FetchOutcomes]

\* Response.ok.
ResponseOkMutant(status) == status >= 200

ResponseOk(status) == status >= 200 /\ status <= 299

\* Line 221-224: every error thrown in the try block is rethrown with the
\* prefix 'Translation failed: '.
TranslationFailed(cause) ==
    [kind |-> "rejected", prefix |-> ErrTranslate, cause |-> cause]

\* Lines 176-225.  The API key is present whenever the module has loaded
\* (lines 18-22 exit the process otherwise).
translateWithGemini(request) ==
    LET response == request.fetch
    IN IF response.kind = "throws"
       THEN TranslationFailed(<<"fetch failed">>)
       ELSE IF ~ResponseOk(response.status[1])
       THEN TranslationFailed(<<"Gemini API error", response.status[1],
                                response.status[2]>>)
       ELSE IF response.body.kind = "invalid"
       THEN TranslationFailed(<<"Unexpected token">>)
       ELSE LET translatedText == response.body.text
            IN IF ~Truthy(translatedText)
               THEN TranslationFailed(<<"No translation returned from Gemini API">>)
               ELSE [kind |-> "resolved",
                     translatedText |-> Trim(translatedText),
                     confidence |-> GeminiConfidence,
                     sourceLanguage |-> request.sourceLanguage,
                     targetLanguage |-> request.targetLanguage]

GeminiInit ==
    /\ WorkerIdle /\ LimiterIdle
    /\ input \in GeminiCalls
    /\ output = NoValue

\* One call of translateWithGemini settles.
CallTranslateWithGemini ==
    /\ input.kind = "translate" /\ output = NoValue
    /\ output' = translateWithGemini(input)
    /\ UNCHANGED <<worker, input, limiterVars>>

GeminiNext == CallTranslateWithGemini

GeminiSpec == GeminiInit /\ [][GeminiNext]_vars

GeminiSettled == input.kind = "translate" /\ output # NoValue

\* The three failure modes: a transport error thrown by fetch, a non-2xx
\* response, a 2xx response without candidates[0].content.parts[0].text.
TransportError == input.fetch.kind = "throws"

HttpFailure ==
    /\ input.fetch.kind = "response"
    /\ input.fetch.status[1] \notin 200..299

MissingTranslation ==
    /\ input.fetch.kind = "response"
    /\ input.fetch.status[1] \in 200..299
    /\ input.fetch.body.kind = "json"
    /\ input.fetch.body.text = NoText

\* C15: translateWithGemini rejects, and returns no result, on a transport
\* error, on a non-2xx response (the message then carries the status code
\* and the status text) and on a 2xx response without the translation field.
C15_FailureModesReject ==
    GeminiSettled =>
        /\ (TransportError \/ HttpFailure \/ MissingTranslation)
              => output.kind = "rejected" /\ output.prefix = ErrTranslate
        /\ HttpFailure
              => /\ output.kind = "rejected"
                 /\ output.cause = <<"Gemini API error", input.fetch.status[1],
                                     input.fetch.status[2]>>

\* C15 witness: a 500 response that carries a translation has been rejected
\* with its status code and status text.
C15_Witness ==
    /\ GeminiSettled /\ HttpFailure
    /\ input.fetch.status[1] = 500
    /\ input.fetch.body.kind = "json" /\ Truthy(input.fetch.body.text)
    /\ output.kind = "rejected"
    /\ output.cause = <<"Gemini API error", 500, "Internal Server Error">>

\* C16: whenever translateWithGemini resolves for a non-empty input text,
\* whatever the response body, the translatedText it returns is non-empty
\* and its confidence lies in [0,1].
C16_NonEmptyTranslation ==
    (GeminiSettled /\ output.kind = "resolved" /\ input.text # <<>>)
        => /\ output.translatedText # <<>>
           /\ output.confidence >= 0 /\ output.confidence <= 10

\* =================================================================
\* The rate limiters of lib/rate-limiter.ts: class RateLimiter with
\* checkLimit over a MemoryRateLimitStore (lines 23-80, 142-196) and class
\* RateLimiter with check over an LRU cache (lines 305-345).  Time is counted
\* in units of which WindowMs make one window.

LimitMax == 2           \* largest maxRequests a limiter is configured with
WindowMs == 2           \* time units in windowMs
MaxTime == 3            \* last instant of the clock
MaxCount == 3           \* largest count a key's entry reaches
MaxPending == 2         \* checkLimit calls suspended in increment at once

Identifiers == {"u1", "u2"}

\* keyGenerator is injective ('rate_limit:' + identifier); a key is written
\* as its identifier.
keyGenerator(identifier) == identifier

NoEntry == [value |-> 0, expiresAt |-> -1]

\* Lines 35-36 and lru-cache's staleness test: an entry is served until the
\* clock has passed its expiry.
Expired(entry, t) == entry = NoEntry \/ t > entry.expiresAt

\* Lines 34-41, get: the stored value, or null (written 0: a stored value
\* is at least 1, and increment reads null as 0).
Get(entries, key, t) ==
    IF Expired(entries[key], t) THEN 0 ELSE entries[key].value

\* Lines 37 and 58: get deletes the entry it finds expired.
GetEffect(entries, key, t) ==
    IF Expired(entries[key], t) THEN [entries EXCEPT ![key] = NoEntry]
    ELSE entries

\* Lines 43-48 and 321, 325, set: the entry's expiry restarts from now.
Set(entries, key, value, ttlMs, t) ==
    [entries EXCEPT ![key] = [value |-> value, expiresAt |-> t + ttlMs]]

Limiters == [kind : {"checkLimit", "check"}, maxRequests : 1..LimitMax]

NoWindow == [at |-> -1, calls |-> 0]

\* What a call returns, with the instant it was made at, its rank among the
\* calls made for its identifier since the window began, and that instant.
Result(identifier, t, window, allowed, count, remaining) ==
    [kind |-> "limit", identifier |-> identifier, at |-> t,
     windowAt |-> window.at, ordinal |-> window.calls,
     allowed |-> allowed, count |-> count, remaining |-> remaining]

\* Lines 166-175, checkLimit's result for the count increment returned.
\* (The fail-open catch block is reached only when the store throws, which
\* MemoryRateLimitStore does not.)
checkLimit(identifier, t, window, count, maxRequests) ==
    Result(identifier, t, window,
           count <= maxRequests, count, Max(0, maxRequests - count))

\* Lines 334-344, check's result for the count increment returned.
check(identifier, t, window, count, maxRequests) ==
    LET remaining == maxRequests - count
        success == remaining >= 0
    IN Result(identifier, t, window,
              success, count, IF success THEN remaining ELSE 0)

\* The window a call made at instant t for a key belongs to: a new one when
\* the key has no unexpired entry and no call for it is suspended, the
\* current one otherwise.
WindowOf(key, t) ==
    IF Expired(store[key], t) /\ \A c \in suspended : c.key # key
    THEN [at |-> t, calls |-> 1]
    ELSE [windowStart[key] EXCEPT !.calls = @ + 1]

LimiterInit ==
    /\ WorkerIdle
    /\ input = NoValue /\ output = NoValue
    /\ limiter \in Limiters
    /\ store = [k \in Identifiers |-> NoEntry]
    /\ now = 0
    /\ windowStart = [k \in Identifiers |-> NoWindow]
    /\ suspended = {}

\* The clock advances; the continuations of the suspended calls are
\* microtasks and run before it does.
Tick ==
    /\ limiter # NoValue /\ suspended = {}
    /\ now < MaxTime
    /\ now' = now + 1
    /\ output' = NoValue
    /\ UNCHANGED <<worker, input, limiter, store, windowStart, suspended>>

\* Lines 156-165 with 50-51 and 34-41: checkLimit calls store.increment,
\* which runs get and is suspended at 'await this.get(key)'.
CheckLimitCall(identifier) ==
    /\ limiter # NoValue /\ limiter.kind = "checkLimit"
    /\ Cardinality(suspended) < MaxPending
    /\ LET key == keyGenerator(identifier)
           current == Get(store, key, now)
           window == WindowOf(key, now)
       IN /\ current + Cardinality({c \in suspended : c.key = key}) < MaxCount
          /\ store' = GetEffect(store, key, now)
          /\ windowStart' = [windowStart EXCEPT ![key] = window]
          /\ suspended' = suspended \cup
                 {[identifier |-> identifier, key |-> key,
                   current |-> current, window |-> window]}
    /\ output' = NoValue
    /\ UNCHANGED <<worker, input, limiter, now>>

\* Lines 52-54 and 166-175: increment resumes with the value it read, writes
\* value + 1 through set, and checkLimit returns.
CheckLimitReturn(c) ==
    /\ c \in suspended
    /\ LET newValue == c.current + 1
       IN /\ store' = Set(store, c.key, newValue, WindowMs, now)
          /\ output' = checkLimit(c.identifier, now, c.window, newValue,
                                  limiter.maxRequests)
    /\ suspended' = suspended \ {c}
    /\ UNCHANGED <<worker, input, limiter, now, windowStart>>

\* Lines 322-327 and 334-344: check increments the LRU cache's entry
\* synchronously and returns.
Check(identifier) ==
    /\ limiter # NoValue /\ limiter.kind = "check"
    /\ LET key == identifier
           currentValue == Get(store, key, now)
           newValue == currentValue + 1
           window == WindowOf(key, now)
       IN /\ currentValue < MaxCount
          /\ store' = Set(GetEffect(store, key, now), key, newValue,
                          WindowMs, now)
          /\ windowStart' = [windowStart EXCEPT ![key] = window]
          /\ output' = check(identifier, now, window, newValue,
                             limiter.maxRequests)
    /\ UNCHANGED <<worker, input, limiter, now, suspended>>

\* Lines 28-31 and 65-72: the store's cleanup timer fires.
Cleanup ==
    /\ limiter # NoValue /\ limiter.kind = "checkLimit"
    /\ \E k \in Identifiers : store[k] # NoEntry /\ now > store[k].expiresAt
    /\ store' = [k \in Identifiers |->
                   IF now > store[k].expiresAt THEN NoEntry ELSE store[k]]
    /\ output' = NoValue
    /\ UNCHANGED <<worker, input, limiter, now, windowStart, suspended>>

LimiterNext ==
    \/ Tick
    \/ \E identifier \in Identifiers : CheckLimitCall(identifier)
    \/ \E c \in suspended : CheckLimitReturn(c)
    \/ \E identifier \in Identifiers : Check(identifier)
    \/ Cleanup

LimiterSpec == LimiterInit /\ [][LimiterNext]_vars

\* A call has returned within windowMs of the beginning of its window.
ReturnedInWindow ==
    /\ output # NoValue /\ output.kind = "limit"
    /\ output.at <= output.windowAt + WindowMs

\* C17: a call made for an identifier within one window is allowed exactly
\* when it is among the first maxRequests calls made for that identifier in
\* the window, and the remaining it reports is max(0, maxRequests - count),
\* never negative.
C17_FirstMaxRequestsAllowed ==
    ReturnedInWindow
        => /\ output.allowed <=> output.ordinal <= limiter.maxRequests
           /\ output.remaining = Max(0, limiter.maxRequests - output.count)
           /\ output.remaining >= 0

\* C18: a request is counted in a window that began at most windowMs
\* before it: once windowMs have passed since the first counted request of
\* a window, the next request starts the count again from one.
C18_CounterResets ==
    (output # NoValue /\ output.kind = "limit")
        => output.at <= output.windowAt + WindowMs

\* =================================================================
\* withAuth (lib/api-middleware.ts, lines 160-209), as a function of the
\* request, of NODE_ENV, of what supabase.auth.getUser answers and of what
\* the wrapped handler does.

NodeEnvs == {"development", "production", "test"}

\* The credentials a client may send: none, a JWT Supabase verifies, an
\* expired one, or anything else.
Tokens == {"", "valid", "expired", "garbage"}

\* The authorization header: absent, or a scheme prefix and credentials.
NoHeader == [scheme |-> "absent", credentials |-> ""]

AuthHeaders == {NoHeader} \cup [scheme : {"Bearer ", ""}, credentials : Tokens]

\* Line 167: authHeader?.replace('Bearer ', '').
ExtractToken(authHeader) ==
    IF authHeader = NoHeader THEN "" ELSE authHeader.credentials

\* supabase.auth.getUser(token): the auth service verifies the token, or
\* answers without a user, or the call throws.
AuthServices == {"up", "nouser", "down"}

getUser(token, service) ==
    CASE service = "down" -> [kind |-> "throws", user |-> "", error |-> FALSE]
      [] service = "nouser" -> [kind |-> "returns", user |-> "", error |-> FALSE]
      [] token = "valid" -> [kind |-> "returns", user |-> "u1", error |-> FALSE]
      [] OTHER -> [kind |-> "returns", user |-> "", error |-> TRUE]

\* What the wrapped handler (the inner middleware and the route) does: it
\* returns a response, or throws an ApiError (the rate limiter's 429), or
\* throws another error.
HandlerOutcomes == {"200", "400", "ApiError 429", "Error"}

AuthCalls ==
    [kind : {"request"}, nodeEnv : NodeEnvs, authHeader : AuthHeaders,
     service : AuthServices, handler : HandlerOutcomes]

\* Lines 143-157: the headers addSecurityHeaders sets.
SecurityHeaders ==
    {"X-Content-Type-Options", "X-Frame-Options", "X-XSS-Protection",
     "Referrer-Policy", "Permissions-Policy"}

CorsHeaders ==
    {"Access-Control-Allow-Origin", "Access-Control-Allow-Methods",
     "Access-Control-Allow-Headers"}

Response(status, headers, invoked, user) ==
    [kind |-> "response", status |-> status, headers |-> headers,
     invoked |-> invoked, user |-> user]

addSecurityHeaders(response) ==
    [response EXCEPT !.headers = @ \cup SecurityHeaders \cup CorsHeaders]

\* Lines 121-140: NextResponse.json(...) with the error's status.
createErrorResponse(statusCode, invoked, user) ==
    Response(statusCode, {"content-type"}, invoked, user)

\* Line 171: the development-mode bypass.
DevBypassMutant(nodeEnv) == nodeEnv # "production"

DevBypass(nodeEnv) == nodeEnv = "development"

\* The handler's response, when it returns one.
HandlerResponse(outcome, user) ==
    Response(IF outcome = "200" THEN 200 ELSE 400, {"content-type"}, TRUE, user)

HandlerThrows(outcome) == outcome \in {"ApiError 429", "Error"}

\* Line 206: an ApiError keeps its status, any other error becomes a 401.
CaughtStatus(outcome) == IF outcome = "ApiError 429" THEN 429 ELSE 401

\* Lines 160-209.
withAuth(request) ==
    LET token == ExtractToken(request.authHeader)
        verdict == getUser(token, request.service)
    IN IF token = ""
       THEN IF DevBypass(request.nodeEnv)
            THEN \* 'return handler(request)' without await: the handler's
                 \* response or rejection is passed on as it is
                 IF HandlerThrows(request.handler)
                 THEN [kind |-> "rejected", status |-> 0, headers |-> {},
                       invoked |-> TRUE, user |-> "dev-user-id"]
                 ELSE HandlerResponse(request.handler, "dev-user-id")
            ELSE createErrorResponse(401, FALSE, "")
       ELSE IF verdict.kind = "throws"
       THEN createErrorResponse(401, FALSE, "")
       ELSE IF verdict.error \/ verdict.user = ""
       THEN createErrorResponse(401, FALSE, "")
       ELSE IF HandlerThrows(request.handler)
       THEN createErrorResponse(CaughtStatus(request.handler), TRUE,
                                verdict.user)
       ELSE addSecurityHeaders(HandlerResponse(request.handler, verdict.user))

AuthInit ==
    /\ WorkerIdle /\ LimiterIdle
    /\ input \in AuthCalls
    /\ output = NoValue

\* A request to an endpoint wrapped with withAuth is answered.
CallWithAuth ==
    /\ input.kind = "request" /\ output = NoValue
    /\ output' = withAuth(input)
    /\ UNCHANGED <<worker, input, limiterVars>>

AuthNext == CallWithAuth

AuthSpec == AuthInit /\ [][AuthNext]_vars

Answered == input.kind = "request" /\ output # NoValue

\* The request carries a token that Supabase verifies to a user.
Verified ==
    /\ ExtractToken(input.authHeader) = "valid"
    /\ input.service = "up"

\* C19: outside development mode the wrapped handler is invoked only for a
\* request whose token Supabase verifies to a user; every other request
\* (token missing, invalid or expired) is answered 401 without the handler
\* being invoked.
C19_HandlerNeedsVerifiedToken ==
    (Answered /\ input.nodeEnv # "development")
        => /\ output.invoked => Verified /\ output.user = "u1"
           /\ ~Verified => output.status = 401 /\ ~output.invoked

\* C19 witness: in production a request with an expired bearer token has
\* been answered 401, the handler not invoked.
C19_Witness ==
    /\ Answered /\ input.nodeEnv = "production"
    /\ input.authHeader = [scheme |-> "Bearer ", credentials |-> "expired"]
    /\ input.service = "up"
    /\ output.status = 401 /\ ~output.invoked

\* C20: every response of an endpoint wrapped with withAuth carries the
\* five OWASP security headers: successes, 401, 429 and 400 errors and the
\* responses of the development-mode bypass.
C20_SecurityHeadersOnEveryResponse ==
    (Answered /\ output.kind = "response")
        => SecurityHeaders \subseteq output.headers

(***************************************************************************)
(* validateFileUpload (src/lib/validation.ts), a pure function of the      *)
(* file's size and type.  FileSpec draws one file and applies it.          *)
(***************************************************************************)
maxSize == 10 * 1024 * 1024

documentMimeTypesSchema ==
    {"application/pdf", "application/msword",
     "application/vnd.openxmlformats-officedocument.wordprocessingml.document",
     "text/plain"}

imageMimeTypesSchema == {"image/jpeg", "image/png", "image/webp", "image/gif"}

ErrTooLarge == "File too large. Maximum size is 10MB."

ErrUnsupported ==
    "Unsupported file type. Please upload PDF, DOC, DOCX, TXT files or JPG, PNG, WEBP, GIF images."

ErrValidation == "File validation failed"

\* Sizes on both sides of the limit; types in and out of the two enums (a zod
\* enum matches the exact string only); a missing file makes file.size throw.
FileSizes ==
    {0, 1, 1024, maxSize - 1, maxSize, maxSize + 1, 11 * 1024 * 1024}

FileTypes ==
    documentMimeTypesSchema \cup imageMimeTypesSchema
        \cup {"", "application/x-executable", "image/svg+xml", "IMAGE/PNG",
              "application/json"}

FileCalls ==
    [kind : {"file"}, present : BOOLEAN, size : FileSizes, type : FileTypes]

TooLargeMutant(size) == size >= maxSize

TooLarge(size) == size > maxSize

validateFileUpload(file) ==
    IF ~file.present
      THEN [isValid |-> FALSE, error |-> ErrValidation]
      ELSE IF TooLarge(file.size)
        THEN [isValid |-> FALSE, error |-> ErrTooLarge]
        ELSE LET isValidDocument == file.type \in documentMimeTypesSchema
                 isValidImage == file.type \in imageMimeTypesSchema
             IN  IF ~isValidDocument /\ ~isValidImage
                   THEN [isValid |-> FALSE, error |-> ErrUnsupported]
                   ELSE [isValid |-> TRUE, error |-> "undefined"]

FileInit ==
    /\ WorkerIdle /\ LimiterIdle
    /\ input \in FileCalls
    /\ output = NoValue

\* One call of validateFileUpload resolves.
CallValidateFileUpload ==
    /\ input.kind = "file" /\ output = NoValue
    /\ output' = validateFileUpload(input)
    /\ UNCHANGED <<worker, input, limiterVars>>

FileNext == CallValidateFileUpload

FileSpec == FileInit /\ [][FileNext]_vars

FileValidated == input.kind = "file" /\ input.present /\ output # NoValue

\* C21: validateFileUpload returns isValid = true exactly when the file's size
\* is at most 10 MiB and its type is one of the four document or four image
\* MIME types; an oversize file is rejected with 'File too large' and a file
\* of unsupported type with 'Unsupported file type' (the one error a result
\* carries is the size's when both apply).
C21_FileUploadValidated ==
    FileValidated
        => /\ output.isValid
                <=> /\ input.size <= 10485760
                    /\ input.type \in SupportedMimeTypes
           /\ input.size > 10485760 => output.error = ErrTooLarge
           /\ (input.size <= 10485760 /\ input.type \notin SupportedMimeTypes)
                 => output.error = ErrUnsupported

C21_Witness ==
    /\ FileValidated
    /\ input.size = maxSize /\ input.type = "image/webp"
    /\ output.isValid

(***************************************************************************)
(* useFormValidation().validateLanguageSelection (src/lib/validation.ts):  *)
(* languageSelectionSchema.safeParse on the two codes.  LanguageSpec draws *)
(* one pair of codes and applies it.                                       *)
(***************************************************************************)
languageCodeSchema ==
    {"auto", "zh", "zh-tw", "en", "es", "fr", "de", "it", "ja", "ko", "pt", "ru",
     "ar", "hi", "th", "vi", "nl", "sv", "da", "no", "fi", "pl", "cs", "sk",
     "hu", "ro", "bg", "hr", "sr", "sl", "et", "lv", "lt", "el", "tr", "he",
     "fa", "ur", "bn", "ta", "te", "ml", "kn", "gu", "pa", "mr", "ne", "si",
     "my", "km", "lo", "ka", "am", "sw", "zu", "af", "sq", "az", "be", "bs",
     "ca", "cy", "eu", "gl", "is", "ga", "mk", "mt", "mn", "uk", "uz", "kk",
     "ky", "tg", "tk", "hy", "id", "ms", "tl", "haw", "mg", "sm", "to", "fj",
     "mi", "ny", "sn", "yo", "ig", "ha", "so", "rw", "xh", "st", "tn", "ts",
     "ve", "ss", "nr"}

\* The supported codes and a few strings outside the enum.
LanguageInputs == languageCodeSchema \cup {"", "xx", "EN"}

LanguageCalls ==
    [kind : {"language"}, sourceLanguage : LanguageInputs,
     targetLanguage : LanguageInputs]

ErrSameLanguage == "Source and target languages cannot be the same"

ErrInvalidEnum == "Invalid enum value"

\* The predicate given to .refine().
Refinement(data) ==
    data.sourceLanguage # data.targetLanguage \/ data.sourceLanguage = "auto"

\* safeParse: the object's fields are parsed first; the refinement runs only
\* on an object whose fields parsed.
languageSelectionSchema(data) ==
    IF data.sourceLanguage \notin languageCodeSchema
         \/ data.targetLanguage \notin languageCodeSchema
      THEN [success |-> FALSE, message |-> ErrInvalidEnum]
      ELSE IF ~Refinement(data)
        THEN [success |-> FALSE, message |-> ErrSameLanguage]
        ELSE [success |-> TRUE, message |-> "undefined"]

validateLanguageSelection(sourceLanguage, targetLanguage) ==
    languageSelectionSchema([sourceLanguage |-> sourceLanguage,
                             targetLanguage |-> targetLanguage])

LanguageInit ==
    /\ WorkerIdle /\ LimiterIdle
    /\ input \in LanguageCalls
    /\ output = NoValue

\* One call of validateLanguageSelection returns.
CallValidateLanguageSelection ==
    /\ input.kind = "language" /\ output = NoValue
    /\ output' = validateLanguageSelection(input.sourceLanguage,
                                           input.targetLanguage)
    /\ UNCHANGED <<worker, input, limiterVars>>

LanguageNext == CallValidateLanguageSelection

LanguageSpec == LanguageInit /\ [][LanguageNext]_vars

LanguageValidated ==
    /\ input.kind = "language" /\ output # NoValue
    /\ input.sourceLanguage \in languageCodeSchema
    /\ input.targetLanguage \in languageCodeSchema

\* C22: validateLanguageSelection(source, target) fails, with 'Source and
\* target languages cannot be the same', whenever source and target are the
\* same language code, and succeeds for any two different supported codes,
\* source 'auto' included.
C22_SameLanguageRejected ==
    LanguageValidated
        => IF input.sourceLanguage = input.targetLanguage
             THEN ~output.success /\ output.message = ErrSameLanguage
             ELSE output.success

\* The steps of one handleNewJob execution that runs to completion, in the
\* order of lines 242-360.
StepOrder ==
    <<"processing", "fetch", "download", "ocr", "translate", "joined",
      "validated", "insert", "completed">>

IsPrefix(s, t) == Len(s) <= Len(t) /\ \A i \in 1..Len(s) : s[i] = t[i]

\* C23: within one handleNewJob execution the steps are ordered: status
\* 'processing' is written before the asset is fetched, OCR runs before any
\* translation call starts, every block translation has settled successfully
\* before the result is assembled and validated, the ai_results insert comes
\* only after a successful validation, and status 'completed' is written only
\* after that insert has succeeded.
C23_StepsOrdered ==
    /\ \A j \in Jobs : \A f \in Frames(j) :
          /\ IsPrefix(f.log, StepOrder)
          /\ "joined" \in Range(f.log) => ~f.rejected
    /\ Settled
          => /\ IsPrefix(last.log, StepOrder)
             /\ "joined" \in Range(last.log) => ~last.rejected
             /\ ai_jobs[last.job].status = "completed" /\ last.out = "ok"
                   /\ last.err = NoError
                   => last.log = StepOrder

C23_Witness ==
    /\ Settled /\ last.err = NoError
    /\ last.log = StepOrder
    /\ ai_results[last.job] = 1
    /\ ai_jobs[last.job].status = "completed"

\* C24: each status write of handleNewJob carries its timestamp and error
\* detail: the write of 'processing' stamps started_at, the write of
\* 'completed' or 'failed' stamps completed_at, and a failed job has the
\* error's message in error_message.
C24_StatusWritesStamped ==
    [][\A j \in Jobs :
          (ai_jobs[j].status \in JobStatus
             /\ ai_jobs'[j].status # ai_jobs[j].status)
            => /\ ai_jobs'[j].status = "processing"
                    => ai_jobs'[j].started_at # "null"
               /\ ai_jobs'[j].status \in Terminal
                    => ai_jobs'[j].completed_at # "null"
               /\ ai_jobs'[j].status = "failed"
                    => ai_jobs'[j].error_message = last'.err]_vars

(***************************************************************************)
(* handleNewJob from the return of performOCR to its settlement            *)
(* (worker/job-processor.ts, lines 282-380), as a function of the job's    *)
(* config, the OCR result and the outcomes of the three database writes:   *)
(* the translation requests it makes, the AnalysisResult it assembles, the *)
(* schema's verdict and what it leaves in the tables.  AssemblySpec draws  *)
(* one such input and applies it; every translation resolves (the case in  *)
(* which Promise.all lets the assembly run).                               *)
(***************************************************************************)
MaxExtraBlocks == 2     \* blocks of an OCR result other than the mock's

\* What performOCR returns for a PDF, an image and a text file.
MockResults ==
    {performOCR(1, m, "none", r, r) :
        m \in {"application/pdf", "image/png", "text/plain"},
        r \in {0, 999}}

\* Further values of the OCRResult interface (lines 49-63): blocks may be
\* empty and language is optional.  The mock returns none of these.
InterfaceResults ==
    {[kind |-> "resolved",
      blocks |-> SubSeq(performOCR(1, "text/plain", "none", 0, 0).blocks, 1, n),
      pages |-> CeilDiv(n, 10),
      language |-> l] :
        n \in 0..MaxExtraBlocks, l \in {"undefined", "", "es", "en"}}

AssemblyCalls ==
    [kind : {"assemble"},
     sourceLanguage : {"auto", "en", "zh"}, targetLanguage : {"es", "fr"},
     ocrResult : MockResults \cup InterfaceResults,
     insertOk : BOOLEAN, completeOk : BOOLEAN,
     failedOut : {"ok", "error", "throw"}]

\* Lines 287-289 and 302-304:
\* config.sourceLanguage === 'auto' ? (ocrResult.language || 'en')
\*                                  : config.sourceLanguage
EffectiveSourceMutant(config, ocrResult) == config.sourceLanguage

EffectiveSource(config, ocrResult) ==
    IF config.sourceLanguage = "auto"
    THEN IF ocrResult.language \notin {"undefined", ""}
         THEN ocrResult.language
         ELSE "en"
    ELSE config.sourceLanguage

\* Lines 284-293: one request per block, in block order.
TranslationRequests(config, ocrResult) ==
    [i \in 1..Len(ocrResult.blocks) |->
        [block |-> ocrResult.blocks[i].id,
         sourceLanguage |-> EffectiveSource(config, ocrResult),
         targetLanguage |-> config.targetLanguage,
         fetch |-> [kind |-> "response", status |-> <<200, "OK">>,
                    body |-> [kind |-> "json", text |-> <<"x">>]]]]

\* translations.reduce((sum, t) => sum + t.confidence, 0)
RECURSIVE SumConfidence(_)
SumConfidence(translations) ==
    IF translations = <<>> THEN 0
    ELSE Head(translations).confidence + SumConfidence(Tail(translations))

\* 0 / 0
NaN == -1

\* Line 306: the sum divided by translations.length, in tenths.
ConfidenceShortMutant(translations) ==
    IF Len(translations) = 0 THEN NaN
    ELSE SumConfidence(translations) \div (Len(translations) + 1)

ConfidenceDefaultMutant(translations) ==
    IF Len(translations) = 0 THEN 0
    ELSE SumConfidence(translations) \div Len(translations)

Confidence(translations) ==
    IF Len(translations) = 0 THEN NaN
    ELSE SumConfidence(translations) \div Len(translations)

\* Lines 299-324: the assembled object (the fields the claims read).
AnalysisResult(config, ocrResult, translations) ==
    [sourceLanguage |-> EffectiveSource(config, ocrResult),
     targetLanguage |-> config.targetLanguage,
     confidence |-> Confidence(translations),
     detectedLanguage |-> ocrResult.language,
     textBlocks |->
        [index \in 1..Len(ocrResult.blocks) |->
            [id |-> ocrResult.blocks[index].id,
             translatedText |-> translations[index].translatedText,
             confidence |-> translations[index].confidence,
             position |-> ocrResult.blocks[index].bbox]],
     metadata |-> [pages |-> ocrResult.pages,
                   totalBlocks |-> Len(ocrResult.blocks)]]

\* analysisResultSchema: z.number().min(0).max(1) rejects NaN; the string
\* fields hold strings, detectedLanguage is optional.
analysisResultSchema(result) ==
    /\ result.confidence # NaN
    /\ result.confidence >= 0 /\ result.confidence <= 10
    /\ \A i \in 1..Len(result.textBlocks) :
          /\ result.textBlocks[i].confidence >= 0
          /\ result.textBlocks[i].confidence <= 10

\* Lines 362-379: the catch block's write of status 'failed', whose result
\* the code does not read; the row is 'processing' when it does not land.
Failure(call, err, inserted) ==
    [status |-> IF call.failedOut = "ok" THEN "failed" ELSE "processing",
     error_message |-> IF call.failedOut = "ok" THEN err ELSE NoError,
     thrown |-> err, inserted |-> inserted]

\* Lines 326-360.
Persist(call, valid) ==
    IF ~valid THEN Failure(call, ErrValidate, FALSE)
    ELSE IF ~call.insertOk THEN Failure(call, ErrSave, FALSE)
    ELSE IF ~call.completeOk THEN Failure(call, ErrComplete, TRUE)
    ELSE [status |-> "completed", error_message |-> NoError,
          thrown |-> NoError, inserted |-> TRUE]

Assemble(call) ==
    LET requests == TranslationRequests(call, call.ocrResult)
        translations == [i \in 1..Len(requests) |->
                            translateWithGemini(requests[i])]
        result == AnalysisResult(call, call.ocrResult, translations)
        valid == analysisResultSchema(result)
    IN [kind |-> "assembled", requests |-> requests, result |-> result,
        valid |-> valid, end |-> Persist(call, valid)]

AssemblyInit ==
    /\ WorkerIdle /\ LimiterIdle
    /\ input \in AssemblyCalls
    /\ output = NoValue

\* One execution runs from the return of performOCR to its settlement.
CallAssemble ==
    /\ input.kind = "assemble" /\ output = NoValue
    /\ output' = Assemble(input)
    /\ UNCHANGED <<worker, input, limiterVars>>

AssemblyNext == CallAssemble

AssemblySpec == AssemblyInit /\ [][AssemblyNext]_vars

Assembled == input.kind = "assemble" /\ output # NoValue

\* C25: the source language of every translation call and the one stored in
\* the AnalysisResult is the configured source language unless that is
\* 'auto', in which case it is the language OCR detected, or 'en' when OCR
\* detected none; the stored sourceLanguage is never 'auto'.
C25_SourceLanguageResolved ==
    Assembled
        => LET expected ==
                 IF input.sourceLanguage # "auto" THEN input.sourceLanguage
                 ELSE IF input.ocrResult.language \in {"undefined", ""}
                      THEN "en"
                      ELSE input.ocrResult.language
           IN /\ \A i \in 1..Len(output.requests) :
                    output.requests[i].sourceLanguage = expected
              /\ output.result.sourceLanguage = expected
              /\ output.result.sourceLanguage # "auto"

C25_Witness ==
    /\ Assembled
    /\ input.sourceLanguage = "auto"
    /\ input.ocrResult \in MockResults
    /\ Len(output.requests) = 13
    /\ output.result.sourceLanguage = "en"
    /\ output.end.status = "completed"

RECURSIVE SumStored(_)
SumStored(textBlocks) ==
    IF textBlocks = <<>> THEN 0
    ELSE Head(textBlocks).confidence + SumStored(Tail(textBlocks))

\* C26: for a job that completes with n >= 1 text blocks, the persisted
\* AnalysisResult.confidence is the sum of the confidences stored in its n
\* textBlocks divided by n, and textBlocks has exactly one entry per OCR
\* block, in OCR order.
C26_ConfidenceIsMean ==
    (Assembled /\ output.end.status = "completed"
       /\ Len(input.ocrResult.blocks) >= 1)
        => LET n == Len(input.ocrResult.blocks)
               textBlocks == output.result.textBlocks
           IN /\ Len(textBlocks) = n
              /\ \A i \in 1..n :
                    /\ textBlocks[i].id = input.ocrResult.blocks[i].id
                    /\ textBlocks[i].position = input.ocrResult.blocks[i].bbox
              /\ output.result.confidence * n = SumStored(textBlocks)

C26_Witness ==
    /\ Assembled /\ output.end.status = "completed"
    /\ input.ocrResult \in MockResults
    /\ Len(output.result.textBlocks) = 7
    /\ output.result.confidence = 9
    /\ output.end.inserted

RECURSIVE Executing(_)
Executing(j) == IF j = 0 THEN 0 ELSE InFlight(j) + Executing(j - 1)

\* C27: every in-flight handleNewJob execution has its job id in
\* processor.activeJobs for its whole duration, so the number of pipelines
\* executing at once never exceeds maxConcurrentJobs, for any sequence of
\* notifications, re-delivery of an id whose earlier execution finishes first
\* included.
C27_InFlightHoldsSlot ==
    /\ \A j \in Jobs : InFlight(j) > 0 => j \in activeJobs
    /\ Executing(NJobs) <= maxConcurrentJobs

(***************************************************************************)
(* worker/translation-worker.ts: the second worker over the same tables.   *)
(* startWorker awaits one pollForJobs, starts the 5-second interval timer  *)
(* and subscribes to INSERTs on ai_jobs; each pollForJobs selects the      *)
(* pending rows and awaits processTranslationJob for them one after the    *)
(* other; the realtime handler calls processTranslationJob for each        *)
(* notification.  exec holds the frames of processTranslationJob, runs     *)
(* counts its calls.  One action per await point.                          *)
(***************************************************************************)
\* A frame of processTranslationJob: where it is suspended, the error its
\* catch block holds and its caller (a pollForJobs invocation, or Realtime).
TwFrame(pc, err, owner) == [pc |-> pc, err |-> err, owner |-> owner]

\* The caller id that stands for the realtime handler.
Realtime == MaxPolls + 1

ErrWork == "Asset not found"
ErrStore == "Failed to store result"

TwOutcome(ok) ==
    IF ok THEN UNCHANGED faults
    ELSE faults < MaxTwFaults /\ faults' = faults + 1

\* Lines 44-58: the payload updateJobStatus builds.
updateData(status, errorMessage) ==
    CASE status = "processing" ->
           [status |-> status, updated_at |-> status, started_at |-> "now"]
      [] status # "processing" /\ errorMessage = NoError ->
           [status |-> status, updated_at |-> status, completed_at |-> "now"]
      [] OTHER ->
           [status |-> status, updated_at |-> status, completed_at |-> "now",
            error_message |-> errorMessage]

\* Lines 60-67: the update is sent; an error it returns is logged and
\* updateJobStatus returns normally.
updateJobStatus(jobs, jobId, status, errorMessage, ok) ==
    IF ok THEN [jobs EXCEPT ![jobId] =
                  Update(@, updateData(status, errorMessage))]
    ELSE jobs

\* The state the worker's steps leave alone.
twFixed == <<notified, redelivered, activeJobs, crashed, workload,
             startupPending, aux>>

TwInit == WorkerIdle /\ AuxIdle

\* The jobs API inserts a row with status 'pending'; the subscription, once
\* established, carries an INSERT notification for it.
TwCreateJob(j) ==
    /\ ai_jobs[j].status = "absent"
    /\ j <= MaxTwJobs
    /\ \A i \in 1..(j - 1) : ai_jobs[i].status # "absent"
    /\ ai_jobs' = [ai_jobs EXCEPT ![j] =
                     [AbsentRow EXCEPT !.status = "pending",
                                       !.updated_at = "insert"]]
    /\ channel' = [channel EXCEPT ![j] =
                     IF phase = "listening" THEN @ + 1 ELSE @]
    /\ last' = NoEvent
    /\ UNCHANGED <<ai_results, phase, exec, runs, faults, polls, twFixed>>

\* Lines 249-264: startWorker calls pollForJobs, which sends its select.
TwStartWorker ==
    /\ phase = "starting"
    /\ phase' = "polling"
    /\ polls' = [polls EXCEPT ![0] = [pc |-> "select", jobs |-> <<>>]]
    /\ last' = NoEvent
    /\ UNCHANGED <<ai_jobs, ai_results, channel, exec, runs, faults, twFixed>>

\* Line 267: the interval timer fires and calls pollForJobs, whatever the
\* earlier invocations are doing.
TimerTick(p) ==
    /\ phase \in {"subscribing", "listening"}
    /\ p \in 1..MaxPolls
    /\ polls[p].pc = "idle"
    /\ \A q \in 1..(p - 1) : polls[q].pc # "idle"
    /\ polls' = [polls EXCEPT ![p] = [pc |-> "select", jobs |-> <<>>]]
    /\ last' = NoEvent
    /\ UNCHANGED <<ai_jobs, ai_results, channel, phase, exec, runs, faults,
                   twFixed>>

\* Lines 240-242 and 264-286: pollForJobs p goes on with the rows it has
\* still to process: it calls processTranslationJob for the first of them,
\* or returns; when the awaited first invocation returns, startWorker starts
\* the timer and requests the subscription.  ex is exec without the frame
\* that has just settled, if any.
Continue(p, remaining, ex) ==
    IF remaining = <<>>
    THEN /\ polls' = [polls EXCEPT ![p] = [pc |-> "done", jobs |-> <<>>]]
         /\ exec' = ex
         /\ phase' = IF p = 0 THEN "subscribing" ELSE phase
         /\ UNCHANGED runs
    ELSE /\ polls' = [polls EXCEPT ![p] =
                        [pc |-> "loop", jobs |-> Tail(remaining)]]
         /\ exec' = [ex EXCEPT ![Head(remaining)] =
                        Put(@, TwFrame("updProcessing", NoError, p))]
         /\ runs' = [runs EXCEPT ![Head(remaining)] = @ + 1]
         /\ UNCHANGED phase

\* Lines 222-243: the select of the pending rows returns.
PollSelect(p, ok) ==
    /\ polls[p].pc = "select"
    /\ TwOutcome(ok)
    /\ Continue(p, IF ok THEN PendingFrom(1) ELSE <<>>, exec)
    /\ last' = NoEvent
    /\ UNCHANGED <<ai_jobs, ai_results, channel, twFixed>>

\* Lines 269-288: the channel reports the subscription established.
TwSubscribed ==
    /\ phase = "subscribing"
    /\ phase' = "listening"
    /\ last' = NoEvent
    /\ UNCHANGED <<ai_jobs, ai_results, channel, exec, runs, faults, polls,
                   twFixed>>

\* Lines 279-284: the realtime handler calls processTranslationJob for the
\* inserted row.
TwOnInsert(j) ==
    /\ phase = "listening"
    /\ channel[j] > 0
    /\ channel' = [channel EXCEPT ![j] = @ - 1]
    /\ exec' = [exec EXCEPT ![j] =
                  Put(@, TwFrame("updProcessing", NoError, Realtime))]
    /\ runs' = [runs EXCEPT ![j] = @ + 1]
    /\ last' = NoEvent
    /\ UNCHANGED <<ai_jobs, ai_results, phase, faults, polls, twFixed>>

\* Line 155: updateJobStatus(job.id, 'processing') returns.
TwUpdateProcessing(j, f, ok) ==
    /\ f \in Frames(j) /\ f.pc = "updProcessing"
    /\ TwOutcome(ok)
    /\ ai_jobs' = updateJobStatus(ai_jobs, j, "processing", NoError, ok)
    /\ Goto(j, f, [f EXCEPT !.pc = "work"])
    /\ last' = NoEvent
    /\ UNCHANGED <<ai_results, channel, phase, runs, polls, twFixed>>

\* Lines 157-183: the asset is read and downloaded, its text extracted and
\* translated; any of these may throw into the catch block.
TwWork(j, f, ok) ==
    /\ f \in Frames(j) /\ f.pc = "work"
    /\ TwOutcome(ok)
    /\ IF ok
       THEN Goto(j, f, [f EXCEPT !.pc = "insert"])
       ELSE Goto(j, f, [f EXCEPT !.pc = "updFailed", !.err = ErrWork])
    /\ last' = NoEvent
    /\ UNCHANGED <<ai_jobs, ai_results, channel, phase, runs, polls, twFixed>>

\* Lines 203-209: the insert into ai_results returns.
TwInsert(j, f, ok) ==
    /\ f \in Frames(j) /\ f.pc = "insert"
    /\ TwOutcome(ok)
    /\ IF ok
       THEN /\ ai_results' = [ai_results EXCEPT ![j] = @ + 1]
            /\ Goto(j, f, [f EXCEPT !.pc = "updCompleted"])
       ELSE /\ Goto(j, f, [f EXCEPT !.pc = "updFailed", !.err = ErrStore])
            /\ UNCHANGED ai_results
    /\ last' = NoEvent
    /\ UNCHANGED <<ai_jobs, channel, phase, runs, polls, twFixed>>

\* The frame settles; a pollForJobs that awaited it goes on.
TwSettle(j, f) ==
    LET ex == [exec EXCEPT ![j] = Take(@, f)]
    IN IF f.owner = Realtime
       THEN exec' = ex /\ UNCHANGED <<runs, polls, phase>>
       ELSE Continue(f.owner, polls[f.owner].jobs, ex)

\* Lines 212-213 (status 'completed') and 215-218 (status 'failed'):
\* updateJobStatus returns and processTranslationJob resolves.
TwUpdateFinal(j, f, ok) ==
    /\ f \in Frames(j) /\ f.pc \in {"updCompleted", "updFailed"}
    /\ TwOutcome(ok)
    /\ ai_jobs' = updateJobStatus(ai_jobs, j,
                                  IF f.pc = "updCompleted" THEN "completed"
                                  ELSE "failed",
                                  f.err, ok)
    /\ TwSettle(j, f)
    /\ last' = Event("settled", j, f.err, IF ok THEN "ok" ELSE "error",
                     {}, FALSE)
    /\ UNCHANGED <<ai_results, channel, twFixed>>

TwNext ==
    \/ \E j \in Jobs : TwCreateJob(j)
    \/ TwStartWorker
    \/ \E p \in Polls : TimerTick(p)
    \/ \E p \in Polls, ok \in BOOLEAN : PollSelect(p, ok)
    \/ TwSubscribed
    \/ \E j \in Jobs : TwOnInsert(j)
    \/ \E j \in Jobs : \E f \in Frames(j), ok \in BOOLEAN :
          TwUpdateProcessing(j, f, ok)
    \/ \E j \in Jobs : \E f \in Frames(j), ok \in BOOLEAN : TwWork(j, f, ok)
    \/ \E j \in Jobs : \E f \in Frames(j), ok \in BOOLEAN : TwInsert(j, f, ok)
    \/ \E j \in Jobs : \E f \in Frames(j), ok \in BOOLEAN :
          TwUpdateFinal(j, f, ok)

TwSpec == TwInit /\ [][TwNext]_vars

\* C28: in translation-worker no job is run through processTranslationJob
\* more than once: the realtime INSERT handler, the 5-second pollForJobs tick
\* and an earlier poll still iterating its list never both process the same
\* job, so no job gets two ai_results rows or is set back to processing
\* after it reached completed or failed.
C28_ProcessedOnce ==
    /\ [](\A j \in Jobs : runs[j] <= 1 /\ ai_results[j] <= 1)
    /\ [][\A j \in Jobs : ai_jobs[j].status \in Terminal
                             => ai_jobs'[j].status # "processing"]_vars

\* C29 as stated: whenever a pipeline execution settles, the job's stored
\* status is completed or failed, never pending or processing, even when a
\* status write on the failure path returns an error.
C29_SettledIsTerminal ==
    Settled => ai_jobs[last.job].status \in Terminal

\* C29 as amended: the last status write of an execution that settles has
\* stored completed or failed when it succeeded; when it returned an error or
\* threw, the row is left as it was.
C29_LastWriteDecides ==
    [][\A j \in Jobs :
          (last'.op = "settled" /\ last'.job = j)
            => IF last'.out = "ok"
                 THEN ai_jobs'[j].status \in Terminal
                 ELSE ai_jobs'[j] = ai_jobs[j]]_vars

C29_Witness ==
    /\ Settled /\ last.out = "error"
    /\ last.err = ErrDownload
    /\ ai_jobs[last.job].status = "processing"
    /\ InFlight(last.job) = 0

====
